---------------------------- MODULE Spec2Model ----------------------------
(***************************************************************************)
(* Model of src/app.py, the COVID-19 dashboard script.                     *)
(*                                                                         *)
(* The script is rerun from top to bottom on every interaction.  One run   *)
(* loads the table (load_data, memoised by st.cache_data), reads the       *)
(* sidebar widgets, filters the table (global_df, trend_df), takes the     *)
(* latest row per location (latest_global) and computes what the selected  *)
(* tab shows.  The state is the CSV file on disk, the memo of load_data,   *)
(* the widget values of the session and the frames the last run computed.  *)
(*                                                                         *)
(* Values.  A cell of a numeric column is <<v>> (the number v) or <<>>     *)
(* (NaN, a missing value).  A mean is <<s, n>> (the quotient s / n, n > 0) *)
(* or <<>> (NaN).  A date is a day number, day 1 being 1 January; a        *)
(* location is a number, the rank of its name in alphabetical order.       *)
(***************************************************************************)
EXTENDS Integers, Sequences, FiniteSets, TLC

VARIABLES
    file,                \* cleaned_covid_data.csv on disk
    cache,               \* the memo of st.cache_data for load_data()
    date_range,          \* session value of the date_input (1 or 2 days)
    selected_continent,  \* session value of the Continent selectbox
    selected_countries,  \* session value of the Focus Countries multiselect
    selected_tab,        \* session value of the option_menu
    metric_col,          \* column chosen by the "Select Metric" selectbox
    outcome,             \* how the last run of the script ended
    did_read,            \* the last run called pd.read_csv
    df,                  \* the table load_data returned to the last run
    start_date,          \* lower bound of the filter of the last run
    end_date,            \* upper bound of the filter of the last run
    global_df,
    trend_df,
    latest_global,
    kpi,                 \* Overview: total_cases, total_deaths, ..., deltas
    top_df,              \* Overview: the Top Nations table
    continent_summary,   \* Geographic: the continent aggregate
    heatmap,             \* Analysis: heatmap_countries, pivot and matrix
    corr                 \* Analysis: corr_matrix, or the warning shown

vars == <<file, cache, date_range, selected_continent, selected_countries,
          selected_tab, metric_col, outcome, did_read, df, start_date,
          end_date, global_df, trend_df, latest_global, kpi, top_df,
          continent_summary, heatmap, corr>>

-----------------------------------------------------------------------------
(* Bounds of the model. *)

\* rows of a table of the exhaustive family Tables
MaxRows == 2
\* locations of a table of the family WideTables
MaxLoc == 16
\* the user toggles countries among the first MaxPick locations
MaxPick == 2

(* Program constants. *)

\* days=365 of the default date range
DefaultSpan == 365
\* days=30 of the KPI comparison window
DeltaDays == 30
\* nlargest(5) of the fallback countries and [:5] of the defaults
TopCountriesN == 5
\* nlargest(10) of the Top Nations table
TopNationsN == 10
\* nlargest(15) of the heatmap countries
HeatmapN == 15
\* len(heatmap_matrix.columns) > 20
HeatmapMaxMonths == 20
\* heatmap_matrix.columns[::3]
HeatmapStep == 3
\* len(corr_df) > 10
CorrMinRows == 10

-----------------------------------------------------------------------------
(* Cells, sums and means as pandas computes them. *)

NaN == <<>>
\* a value no run computed
NotComputed == <<>>

IsNaN(x) == x = <<>>

\* the sequence s, with every element computed once
Listed(s) == SubSeq(s, 1, Len(s))

RECURSIVE SumSeq(_)
\* sum of the numbers of a sequence of cells, skipping NaN; 0 when there are none
SumSeq(s) ==
    IF s = <<>> THEN 0
    ELSE (IF IsNaN(Head(s)) THEN 0 ELSE Head(s)[1]) + SumSeq(Tail(s))

RECURSIVE CountSeq(_)
\* number of cells of a sequence that hold a number
CountSeq(s) ==
    IF s = <<>> THEN 0
    ELSE (IF IsNaN(Head(s)) THEN 0 ELSE 1) + CountSeq(Tail(s))

\* Series.sum(): skipna, min_count = 0
ColSum(t, c) == SumSeq(Listed([i \in 1..Len(t) |-> t[i][c]]))

\* Series.mean(): skipna; NaN when no cell holds a number
ColMean(t, c) ==
    LET cells == Listed([i \in 1..Len(t) |-> t[i][c]])
    IN  IF CountSeq(cells) = 0 THEN NaN ELSE <<SumSeq(cells), CountSeq(cells)>>

\* Series.max(): skipna; NaN when no cell holds a number
ColMax(t, c) ==
    LET vals == {t[i][c][1] : i \in {j \in 1..Len(t) : ~IsNaN(t[j][c])}}
    IN  IF vals = {} THEN NaN
        ELSE <<CHOOSE v \in vals : \A w \in vals : w <= v>>

RECURSIVE SortedSeq(_)
\* sorted(...) of a set of numbers
SortedSeq(S) ==
    IF S = {} THEN <<>>
    ELSE LET m == CHOOSE x \in S : \A y \in S : x <= y
         IN  <<m>> \o SortedSeq(S \ {m})

SeqToSet(s) == {s[i] : i \in 1..Len(s)}

-----------------------------------------------------------------------------
(* The CSV files the model draws from.  A parsable file is the table that  *)
(* pd.read_csv and pd.to_datetime make of it: a non-empty sequence of rows *)
(* with a valid date each, and at most one row per (location, date).       *)

\* the file does not exist: pd.read_csv raises FileNotFoundError
MissingFile == "missing"
\* the file exists but pd.read_csv or pd.to_datetime raises on it
UnparsableFile == "unparsable"

NumericCols == {"total_cases", "total_deaths", "vaccination_rate",
                "population", "new_cases", "total_cases_per_million",
                "gdp_per_capita", "population_density", "median_age",
                "hospital_beds_per_thousand", "life_expectancy"}

\* 1 and 2 January, 1 February
DataDays == {1, 2, 32}

\* the continent column: missing for every third location
ContinentOf(loc) ==
    CASE loc % 3 = 1 -> <<"Asia">>
      [] loc % 3 = 2 -> <<"Europe">>
      [] OTHER -> NaN

ProfileIds == 1..4

\* the numeric cells of a row: all missing, all zero, positive, mixed
Profile(k) ==
    CASE k = 1 -> [total_cases |-> NaN, total_deaths |-> NaN,
                   vaccination_rate |-> NaN, population |-> NaN,
                   new_cases |-> NaN, total_cases_per_million |-> NaN,
                   gdp_per_capita |-> NaN, population_density |-> NaN,
                   median_age |-> NaN, hospital_beds_per_thousand |-> NaN,
                   life_expectancy |-> NaN]
      [] k = 2 -> [total_cases |-> <<0>>, total_deaths |-> <<0>>,
                   vaccination_rate |-> <<0>>, population |-> <<0>>,
                   new_cases |-> <<0>>, total_cases_per_million |-> <<0>>,
                   gdp_per_capita |-> <<0>>, population_density |-> <<0>>,
                   median_age |-> <<0>>, hospital_beds_per_thousand |-> <<0>>,
                   life_expectancy |-> <<0>>]
      [] k = 3 -> [total_cases |-> <<2>>, total_deaths |-> <<1>>,
                   vaccination_rate |-> <<3>>, population |-> <<4>>,
                   new_cases |-> <<1>>, total_cases_per_million |-> <<5>>,
                   gdp_per_capita |-> <<6>>, population_density |-> <<2>>,
                   median_age |-> <<3>>, hospital_beds_per_thousand |-> <<1>>,
                   life_expectancy |-> <<7>>]
      [] OTHER -> [total_cases |-> <<-1>>, total_deaths |-> <<3>>,
                   vaccination_rate |-> <<1>>, population |-> <<2>>,
                   new_cases |-> <<2>>, total_cases_per_million |-> NaN,
                   gdp_per_capita |-> NaN, population_density |-> <<1>>,
                   median_age |-> <<5>>, hospital_beds_per_thousand |-> NaN,
                   life_expectancy |-> <<2>>]

MakeRow(loc, day, cells) ==
    [location |-> loc, continent |-> ContinentOf(loc), date |-> day,
     total_cases |-> cells.total_cases, total_deaths |-> cells.total_deaths,
     vaccination_rate |-> cells.vaccination_rate,
     population |-> cells.population, new_cases |-> cells.new_cases,
     total_cases_per_million |-> cells.total_cases_per_million,
     gdp_per_capita |-> cells.gdp_per_capita,
     population_density |-> cells.population_density,
     median_age |-> cells.median_age,
     hospital_beds_per_thousand |-> cells.hospital_beds_per_thousand,
     life_expectancy |-> cells.life_expectancy]

SmallLocs == 1..2

SmallRows == {MakeRow(l, d, Profile(k)) : l \in SmallLocs, d \in DataDays, k \in ProfileIds}

UniqueKeys(t) ==
    \A i, j \in 1..Len(t) :
        (t[i].location = t[j].location /\ t[i].date = t[j].date) => i = j

\* every table of 1..n rows of SmallRows, in every row order
TablesUpTo(n) ==
    UNION {{t \in [1..k -> SmallRows] : UniqueKeys(t)} : k \in 1..n}

Tables == TablesUpTo(MaxRows)

\* a cell of a wide table: NaN, or a number in -1..4
WideCell(i, d, p, k) ==
    LET x == (i * (p + k) + d * k) % 7
    IN  IF x = 0 THEN NaN ELSE <<x - 2>>

WideRow(i, d, p) ==
    MakeRow(i, d, [total_cases |-> WideCell(i, d, p, 1),
                   total_deaths |-> WideCell(i, d, p, 2),
                   vaccination_rate |-> WideCell(i, d, p, 3),
                   population |-> WideCell(i, d, p, 4),
                   new_cases |-> WideCell(i, d, p, 5),
                   total_cases_per_million |-> WideCell(i, d, p, 6),
                   gdp_per_capita |-> WideCell(i, d, p, 7),
                   population_density |-> WideCell(i, d, p, 8),
                   median_age |-> WideCell(i, d, p, 12),
                   hospital_beds_per_thousand |-> WideCell(i, d, p, 10),
                   life_expectancy |-> WideCell(i, d, p, 13)])

RECURSIVE WideTable(_, _)
\* locations n, n-1, ..., 1; a location has a row on day 32 and, when
\* i + p is even, an earlier row on day 2 that follows it in the file
WideTable(n, p) ==
    IF n = 0 THEN <<>>
    ELSE <<WideRow(n, 32, p)>>
         \o (IF (n + p) % 2 = 0 THEN <<WideRow(n, 2, p)>> ELSE <<>>)
         \o WideTable(n - 1, p)

\* total_cases of a table in which every second location falls: all
\* locations stand at i + 1 on day 2; on day 32 the odd ones still do and
\* the even ones have been revised down to 0
Falling(i, d) == IF d = 2 THEN i + 1 ELSE IF i % 2 = 1 THEN i + 1 ELSE 0

\* the falling tables hold no value of hospital_beds_per_thousand
FallingRow(i, d) ==
    [WideRow(i, d, 1) EXCEPT !.total_cases = <<Falling(i, d)>>,
                             !.hospital_beds_per_thousand = NaN]

RECURSIVE FallingTable(_)
\* locations n, n-1, ..., 1, each with a row on day 2 and one on day 32
FallingTable(n) ==
    IF n = 0 THEN <<>>
    ELSE <<FallingRow(n, 2), FallingRow(n, 32)>> \o FallingTable(n - 1)

WidePatterns == 1..2

\* fewer and more locations than each N of the program's nlargest(N)
WideSizes ==
    {TopCountriesN - 1, TopCountriesN + 1, CorrMinRows, TopNationsN + 1, MaxLoc}

WideTables ==
    {WideTable(n, p) : n \in WideSizes, p \in WidePatterns}
        \cup {FallingTable(n) : n \in WideSizes}

-----------------------------------------------------------------------------
(* The filter: global_mask, global_df, trend_df. *)

\* global_mask with the two date tests joined by | in place of &
global_mask_either(r, start, end, continent) ==
    /\ (r.date >= start \/ r.date <= end)
    /\ (continent # "All" => r.continent = <<continent>>)

\* global_mask with the upper bound left out of the range
global_mask_exclusive(r, start, end, continent) ==
    /\ r.date >= start
    /\ r.date < end
    /\ (continent # "All" => r.continent = <<continent>>)

\* (df['date'] >= start_date) & (df['date'] <= end_date), and with a
\* continent selected, & (df['continent'] == selected_continent)
global_mask(r, start, end, continent) ==
    /\ r.date >= start
    /\ r.date <= end
    /\ (continent # "All" => r.continent = <<continent>>)

\* the selection with its missing cells filled: df[global_mask].fillna(0)
GlobalDf_fillna(t, start, end, continent) ==
    LET Keep(r) == global_mask(r, start, end, continent)
        kept == SelectSeq(t, Keep)
    IN  Listed([i \in 1..Len(kept) |->
            [c \in DOMAIN kept[i] |->
                IF c \in NumericCols /\ IsNaN(kept[i][c]) THEN <<0>> ELSE kept[i][c]]])

\* df[global_mask].copy()
GlobalDf(t, start, end, continent) ==
    LET Keep(r) == global_mask(r, start, end, continent)
    IN  SelectSeq(t, Keep)

\* the filter assigned back to df: df = df[global_mask]
df_after_filter_inplace(t, start, end, continent) ==
    GlobalDf(t, start, end, continent)

\* df after the filter step: df[global_mask].copy() is a new frame bound
\* to global_df, and no later statement of the script writes to df
df_after_filter(t, start, end, continent) == t

\* frame[frame['location'].isin(locs)]
IsIn(t, locs) ==
    LET Keep(r) == r.location \in locs
    IN  SelectSeq(t, Keep)

Locations(t) == {t[i].location : i \in 1..Len(t)}

\* the rows of one group of groupby('location')
GroupOf(t, loc) ==
    LET Keep(r) == r.location = loc
    IN  SelectSeq(t, Keep)

\* i comes before j when a column is put in descending order: numbers
\* first, larger first, equal cells in the order they stand in; NaN last
BeforeDesc(t, c, i, j) ==
    IF IsNaN(t[i][c]) THEN IsNaN(t[j][c]) /\ i < j
    ELSE \/ IsNaN(t[j][c])
         \/ t[i][c][1] > t[j][c][1]
         \/ (t[i][c][1] = t[j][c][1] /\ i < j)

\* the same in ascending order; NaN last too
BeforeAsc(t, c, i, j) ==
    IF IsNaN(t[i][c]) THEN IsNaN(t[j][c]) /\ i < j
    ELSE \/ IsNaN(t[j][c])
         \/ t[i][c][1] < t[j][c][1]
         \/ (t[i][c][1] = t[j][c][1] /\ i < j)

\* t put in the order of its indices that before[i, j] gives
Arrange(t, before) ==
    LET pos == Listed([i \in 1..Len(t) |->
                          1 + Cardinality({j \in 1..Len(t) : before[j, i]})])
    IN  Listed([k \in 1..Len(t) |-> t[CHOOSE i \in 1..Len(t) : pos[i] = k]])

\* frame.nlargest(n, c), keep='first': the n rows with the largest cell,
\* largest first; rows without a number fill up after the numbers
NLargest(n, t, c) ==
    LET before == [i \in 1..Len(t), j \in 1..Len(t) |-> BeforeDesc(t, c, i, j)]
    IN  SubSeq(Arrange(t, before), 1, IF n < Len(t) THEN n ELSE Len(t))

\* frame.sort_values(c, ascending=True), na_position='last'
SortValuesAsc(t, c) ==
    LET before == [i \in 1..Len(t), j \in 1..Len(t) |-> BeforeAsc(t, c, i, j)]
    IN  Arrange(t, before)

\* frame.sort_values('date'): rows of one date keep their order
SortByDate(t) ==
    LET before == [i \in 1..Len(t), j \in 1..Len(t) |->
                      t[i].date < t[j].date \/ (t[i].date = t[j].date /\ i < j)]
    IN  Arrange(t, before)

RECURSIVE Last(_, _)
\* GroupBy.last() of one column of one group: the last cell that is not
\* missing, NaN when every cell is missing
Last(rows, c) ==
    IF rows = <<>> THEN NaN
    ELSE IF ~IsNaN(rows[Len(rows)][c]) THEN rows[Len(rows)][c]
    ELSE Last(SubSeq(rows, 1, Len(rows) - 1), c)

\* the ranking value taken from the latest row of a location instead
GroupMax_latest(t, c) ==
    LET locs == SortedSeq(Locations(t))
    IN  Listed([k \in 1..Len(locs) |->
            [location |-> locs[k],
             total_cases |-> Last(GroupOf(SortByDate(t), locs[k]), c)]])

\* global_df.groupby('location')['total_cases'].max(): one row per
\* location, locations in sorted order
GroupMax(t, c) ==
    LET locs == SortedSeq(Locations(t))
    IN  Listed([k \in 1..Len(locs) |->
            [location |-> locs[k], total_cases |-> ColMax(GroupOf(t, locs[k]), c)]])

\* global_df.groupby('location')['total_cases'].max().nlargest(n).index
TopByMax(t, n) ==
    LET top == NLargest(n, GroupMax(t, "total_cases"), "total_cases")
    IN  Listed([k \in 1..Len(top) |-> top[k].location])

\* top_countries of the else branch
top_countries(gdf) == TopByMax(gdf, TopCountriesN)

\* the fallback taken whenever the selection leaves no row
TrendDf_fallback_if_no_row(gdf, countries) ==
    IF IsIn(gdf, countries) # <<>>
    THEN IsIn(gdf, countries)
    ELSE IsIn(gdf, SeqToSet(top_countries(gdf)))

TrendDf(gdf, countries) ==
    IF countries # {}
    THEN IsIn(gdf, countries)
    ELSE IsIn(gdf, SeqToSet(top_countries(gdf)))

-----------------------------------------------------------------------------
(* latest_global: sort_values('date').groupby('location').last().reset_index() *)

\* the row of one location: every column reduced by last() on its own
LastRow(rows, loc) ==
    [location |-> loc,
     continent |-> Last(rows, "continent"),
     date |-> rows[Len(rows)].date,
     total_cases |-> Last(rows, "total_cases"),
     total_deaths |-> Last(rows, "total_deaths"),
     vaccination_rate |-> Last(rows, "vaccination_rate"),
     population |-> Last(rows, "population"),
     new_cases |-> Last(rows, "new_cases"),
     total_cases_per_million |-> Last(rows, "total_cases_per_million"),
     gdp_per_capita |-> Last(rows, "gdp_per_capita"),
     population_density |-> Last(rows, "population_density"),
     median_age |-> Last(rows, "median_age"),
     hospital_beds_per_thousand |-> Last(rows, "hospital_beds_per_thousand"),
     life_expectancy |-> Last(rows, "life_expectancy")]

\* groupby('location') applied to the frame as it stands, without the sort
Sorted_unsorted(gdf) == gdf

\* the frame groupby('location') is applied to
Sorted(gdf) == SortByDate(gdf)

\* the snapshot taken from the rows of the selected countries
snapshot_source_trend(gdf, tdf) == tdf

\* the frame line 204 takes the snapshot from: global_df, not trend_df
snapshot_source(gdf, tdf) == gdf

LatestGlobal(gdf) ==
    LET sorted == Sorted(gdf)
        locs == SortedSeq(Locations(gdf))
    IN  Listed([k \in 1..Len(locs) |-> LastRow(GroupOf(sorted, locs[k]), locs[k])])

-----------------------------------------------------------------------------
(* Overview tab: the KPI cards and the Top Nations table. *)

\* delta=None of st.metric
None == <<"None">>

\* the quotient without the factor 100
PctDelta_fraction(a, b) == <<"+", a - b, b>>

\* f"+{(a - b) / b * 100:.1f}%": the text is "+", the number and "%"; the
\* number is kept as the exact quotient num / den that the format renders
PctDelta(a, b) == <<"+", (a - b) * 100, b>>

\* f"+{(avg - prev):.1f}%" of two means; "+nan%" when avg is NaN
DiffDelta(avg, prev) ==
    IF IsNaN(avg) THEN <<"+", "nan">>
    ELSE <<"+", avg[1] * prev[2] - prev[1] * avg[2], avg[2] * prev[2]>>

\* the guard written prev_cases >= 0
SumPositive_orZero(x) == x >= 0

\* prev_cases > 0 of a sum
SumPositive(x) == x > 0

\* prev_vax > 0 of a mean; NaN > 0 is False
MeanPositive(m) == ~IsNaN(m) /\ m[1] > 0

MaxDate(t) == CHOOSE d \in {t[i].date : i \in 1..Len(t)} :
                  \A i \in 1..Len(t) : t[i].date <= d

MinDate(t) == CHOOSE d \in {t[i].date : i \in 1..Len(t)} :
                  \A i \in 1..Len(t) : d <= t[i].date

\* global_df[global_df['date'] <= date_30_ago]
PastData(gdf, end) ==
    LET Keep(r) == r.date <= end - DeltaDays
    IN  SelectSeq(gdf, Keep)

\* past_data[past_data['date'] == past_data['date'].max()]
PastLatest(past) ==
    LET Keep(r) == r.date = MaxDate(past)
    IN  SelectSeq(past, Keep)

Kpi(gdf, latest, end) ==
    LET total_cases == ColSum(latest, "total_cases")
        total_deaths == ColSum(latest, "total_deaths")
        avg_vax_rate == ColMean(latest, "vaccination_rate")
        past_data == PastData(gdf, end)
        past_latest == PastLatest(past_data)
        prev_cases == ColSum(past_latest, "total_cases")
        prev_deaths == ColSum(past_latest, "total_deaths")
        prev_vax == ColMean(past_latest, "vaccination_rate")
        base == [total_cases |-> total_cases, total_deaths |-> total_deaths,
                 avg_vax_rate |-> avg_vax_rate,
                 countries_tracked |-> Cardinality(Locations(latest)),
                 past_data |-> past_data]
    IN  IF past_data # <<>>
        THEN base @@
             [prev_cases |-> <<prev_cases>>, prev_deaths |-> <<prev_deaths>>,
              prev_vax |-> prev_vax,
              cases_delta |-> IF SumPositive(prev_cases)
                              THEN PctDelta(total_cases, prev_cases) ELSE None,
              deaths_delta |-> IF SumPositive(prev_deaths)
                               THEN PctDelta(total_deaths, prev_deaths) ELSE None,
              vax_delta |-> IF MeanPositive(prev_vax)
                            THEN DiffDelta(avg_vax_rate, prev_vax) ELSE None]
        ELSE base @@
             [prev_cases |-> NaN, prev_deaths |-> NaN, prev_vax |-> NaN,
              cases_delta |-> None, deaths_delta |-> None, vax_delta |-> None]

\* the values of metric_options
MetricCols == {"total_cases", "total_deaths", "vaccination_rate",
               "total_cases_per_million"}

\* the table as nlargest leaves it, without the ascending sort
TopDf_unsorted(latest, metric) == NLargest(TopNationsN, latest, metric)

\* latest_global.nlargest(10, metric_col).sort_values(metric_col, ascending=True)
TopDf(latest, metric) == SortValuesAsc(NLargest(TopNationsN, latest, metric), metric)

-----------------------------------------------------------------------------
(* Geographic tab: continent_summary. *)

\* the continents of the files, in sorted order
ContinentNames == <<"Asia", "Europe">>

GroupOfContinent(t, continent) ==
    LET Keep(r) == r.continent = <<continent>>
    IN  SelectSeq(t, Keep)

\* (a / b) * 1_000_000 of two sums: a float division, which does not raise
PerMillion(a, b) ==
    IF b # 0 THEN <<a * 1000000, b>>
    ELSE IF a = 0 THEN NaN
    ELSE IF a > 0 THEN <<"inf">> ELSE <<"-inf">>

\* the sums taken with min_count=1: missing when no row holds a value
ContinentRow_min_count(rows, continent) ==
    LET Sum(c) == IF \A i \in 1..Len(rows) : IsNaN(rows[i][c])
                  THEN NaN ELSE <<ColSum(rows, c)>>
    IN  [continent |-> continent,
         total_cases |-> Sum("total_cases"),
         total_deaths |-> Sum("total_deaths"),
         population |-> Sum("population"),
         vaccination_rate |-> ColMean(rows, "vaccination_rate"),
         cases_per_million |-> PerMillion(ColSum(rows, "total_cases"),
                                          ColSum(rows, "population")),
         deaths_per_million |-> PerMillion(ColSum(rows, "total_deaths"),
                                           ColSum(rows, "population"))]

\* one row of latest_global.groupby('continent').agg({...}) and the two
\* per-million columns
ContinentRow(rows, continent) ==
    [continent |-> continent,
     total_cases |-> <<ColSum(rows, "total_cases")>>,
     total_deaths |-> <<ColSum(rows, "total_deaths")>>,
     population |-> <<ColSum(rows, "population")>>,
     vaccination_rate |-> ColMean(rows, "vaccination_rate"),
     cases_per_million |-> PerMillion(ColSum(rows, "total_cases"),
                                      ColSum(rows, "population")),
     deaths_per_million |-> PerMillion(ColSum(rows, "total_deaths"),
                                       ColSum(rows, "population"))]

\* groupby drops the rows whose continent is missing
ContinentSummary(latest) ==
    LET Present(c) == GroupOfContinent(latest, c) # <<>>
        names == SelectSeq(ContinentNames, Present)
    IN  Listed([k \in 1..Len(names) |->
            ContinentRow(GroupOfContinent(latest, names[k]), names[k])])

-----------------------------------------------------------------------------
(* Analysis tab: the monthly heatmap. *)

\* first day of each month, and of the next year
MonthStarts == <<1, 32, 60, 91, 121, 152, 182, 213, 244, 274, 305, 335, 366>>

\* dt.to_period('M') of a day of the year
MonthOf(d) == CHOOSE m \in 1..12 : MonthStarts[m] <= d /\ d < MonthStarts[m + 1]

\* global_df.groupby('location')['total_cases'].max().nlargest(15).index.tolist()
heatmap_countries(gdf) == TopByMax(gdf, HeatmapN)

\* heatmap_data.groupby(['location', 'month'])['new_cases'].sum(): one
\* row per (location, month) that has rows
HeatmapPivot(data) ==
    {[location |-> l, month |-> m,
      new_cases |-> LET Keep(r) == r.location = l /\ MonthOf(r.date) = m
                    IN  <<ColSum(SelectSeq(data, Keep), "new_cases")>>] :
        <<l, m>> \in {<<data[i].location, MonthOf(data[i].date)>> : i \in 1..Len(data)}}

\* DataFrame.fillna(0)
FillNa0(x) == IF IsNaN(x) THEN <<0>> ELSE x

\* heatmap_matrix.columns[::3]
EveryThird(months) ==
    LET s == SortedSeq(months)
    IN  {s[k] : k \in {j \in 1..Len(s) : (j - 1) % HeatmapStep = 0}}

\* heatmap_pivot.pivot(index='location', columns='month',
\* values='new_cases').fillna(0), thinned to every third month when
\* there are more than 20
HeatmapMatrix(pivot) ==
    LET locs == {e.location : e \in pivot}
        months == {e.month : e \in pivot}
        shown == IF Cardinality(months) > HeatmapMaxMonths
                 THEN EveryThird(months) ELSE months
        Cell(l, m) == IF \E e \in pivot : e.location = l /\ e.month = m
                      THEN (CHOOSE e \in pivot : e.location = l /\ e.month = m).new_cases
                      ELSE NaN
    IN  [l \in locs, m \in shown |-> FillNa0(Cell(l, m))]

Heatmap(gdf) ==
    LET countries == heatmap_countries(gdf)
        heatmap_data == IsIn(gdf, SeqToSet(countries))
        heatmap_pivot == HeatmapPivot(heatmap_data)
    IN  [countries |-> countries, pivot |-> heatmap_pivot,
         matrix |-> HeatmapMatrix(heatmap_pivot)]

-----------------------------------------------------------------------------
(* Analysis tab: the correlation matrix. *)

corr_cols == <<"total_cases", "total_deaths", "gdp_per_capita",
               "population_density", "median_age", "vaccination_rate",
               "hospital_beds_per_thousand", "life_expectancy">>

\* the rows that hold a value of both columns: corr() is computed over
\* pairwise complete observations
PairRows(t, a, b) ==
    LET Keep(r) == ~IsNaN(r[a]) /\ ~IsNaN(r[b])
    IN  SelectSeq(t, Keep)

\* the sum of the products of two columns over rows that hold both
SumProduct(rows, a, b) ==
    SumSeq(Listed([i \in 1..Len(rows) |-> <<rows[i][a][1] * rows[i][b][1]>>]))

\* n times the sum of the products of the deviations from the means
\* (an integer: n * sum(x * y) - sum(x) * sum(y))
Codeviation(rows, a, b) ==
    Len(rows) * SumProduct(rows, a, b) - ColSum(rows, a) * ColSum(rows, b)

\* the divisor taken without the test for zero
Pearson_undivided(t, a, b) ==
    LET rows == PairRows(t, a, b)
    IN  IF Len(rows) < 1 THEN NaN
        ELSE <<Codeviation(rows, a, b),
               Codeviation(rows, a, a) * Codeviation(rows, b, b)>>

\* one cell of DataFrame.corr() (pearson, min_periods=1): NaN without a
\* complete pair and when the divisor sqrt(ssqdm_x * ssqdm_y) is 0, that is,
\* when one of the columns is constant over the pairs; else <<c, q>>, the
\* number c / sqrt(q) with q > 0
Pearson(t, a, b) ==
    LET rows == PairRows(t, a, b)
        q == Codeviation(rows, a, a) * Codeviation(rows, b, b)
    IN  IF Len(rows) < 1 \/ q = 0 THEN NaN
        ELSE <<Codeviation(rows, a, b), q>>

\* corr_df.corr(): a cell for every pair of corr_cols
CorrMatrix(t) ==
    [ab \in SeqToSet(corr_cols) \X SeqToSet(corr_cols) |-> Pearson(t, ab[1], ab[2])]

\* the test with >= in place of >
EnoughRows_inclusive(corr_df) == Len(corr_df) >= CorrMinRows

\* not corr_df.empty and len(corr_df) > 10
EnoughRows(corr_df) == corr_df # <<>> /\ Len(corr_df) > CorrMinRows

\* the matrix, or the st.warning of the else branch; the script goes on
\* with the heatmap after either
Correlation(latest) ==
    IF EnoughRows(latest)
    THEN [shown |-> "corr_matrix", corr_matrix |-> CorrMatrix(latest)]
    ELSE [shown |-> "InsufficientData", corr_matrix |-> NotComputed]

-----------------------------------------------------------------------------
(* load_data and its memo. *)

MissingCsv == [kind |-> MissingFile]

UnparsableCsv == [kind |-> UnparsableFile]

Csv(t) == [kind |-> "csv", table |-> t]

\* st.cache_data has nothing stored for load_data()
EmptyCache == <<>>

\* the body of load_data, run on a cache miss: the table, or how the
\* script ends.  Only FileNotFoundError is caught (st.error, st.stop);
\* any other exception of read_csv or to_datetime leaves the function.
read_data(f) ==
    CASE f.kind = MissingFile -> [outcome |-> "DataUnavailable", df |-> NotComputed]
      [] f.kind = UnparsableFile -> [outcome |-> "exception", df |-> NotComputed]
      [] OTHER -> [outcome |-> "ok", df |-> f.table]

\* the memo is keyed by the (empty) arguments of load_data alone: a stored
\* table is returned whatever the file holds now
CacheHit(c, f) == c # EmptyCache

\* @st.cache_data def load_data(): a stored table is returned without
\* running the body; a returned table is stored, a raised exception is not
load_data(c, f) ==
    IF CacheHit(c, f)
    THEN [outcome |-> "ok", df |-> c[1], cache |-> c, did_read |-> FALSE]
    ELSE LET r == read_data(f)
         IN  [outcome |-> r.outcome, df |-> r.df,
              cache |-> IF r.outcome = "ok" THEN <<r.df>> ELSE c,
              did_read |-> TRUE]

-----------------------------------------------------------------------------
(* The sidebar widgets. *)

\* what the session holds for a widget the last run did not render
NoRange == <<>>

NoChoice == ""

NoCountries == {}

\* value=[max_date - pd.Timedelta(days=365), max_date]
DefaultRange(t) == <<MaxDate(t) - DefaultSpan, MaxDate(t)>>

\* the days the user picks from: the days of the data between min_date
\* and max_date
PickDays(t) == {d \in DataDays : MinDate(t) <= d /\ d <= MaxDate(t)}

\* what st.date_input can return: the default, a range the user picked,
\* or the single day of a range the user has begun to pick
DateRanges(t) ==
    {DefaultRange(t)}
    \cup {r \in PickDays(t) \X PickDays(t) : r[1] <= r[2]}
    \cup {<<MinDate(t)>>}

\* start_date, end_date
StartEnd(t, dr) == IF Len(dr) = 2 THEN dr ELSE <<MinDate(t), MaxDate(t)>>

\* ['All'] + sorted(df['continent'].dropna().unique().tolist())
all_continents(t) ==
    {"All"} \cup {t[i].continent[1] : i \in {j \in 1..Len(t) : ~IsNaN(t[j].continent)}}

\* available_countries
available_countries(t, continent) ==
    IF continent # "All"
    THEN SortedSeq(Locations(GroupOfContinent(t, continent)))
    ELSE SortedSeq(Locations(t))

\* the ranks of "United States", "United Kingdom", "India", "Germany", "Brazil"
default_countries == {2, 5, 8, 11, 14}

Prefix(s, n) == SubSeq(s, 1, IF n < Len(s) THEN n ELSE Len(s))

\* default=final_defaults if final_defaults else available_countries[:5]
DefaultSelection(t, continent) ==
    LET available == available_countries(t, continent)
        final_defaults == default_countries \cap SeqToSet(available)
    IN  IF final_defaults # {} THEN final_defaults
        ELSE SeqToSet(Prefix(available, TopCountriesN))

\* the selections the user makes: any set of the first MaxPick countries
Selections(t, continent) ==
    SUBSET SeqToSet(Prefix(available_countries(t, continent), MaxPick))

\* options of option_menu whose tab the model computes
Tabs == {"Overview", "Trends", "Geographic", "Analysis", "Statistical", "About"}

-----------------------------------------------------------------------------
(* One run of the script, from load_data to the selected tab, with the     *)
(* session's widget values dr, continent, countries, tab and metric.  In  *)
(* a fresh session every widget returns its default.  A run that ends in   *)
(* load_data renders no widget, and the session drops the values of        *)
(* widgets a run did not render.                                           *)

Halted(loaded) ==
    /\ outcome' = loaded.outcome
    /\ did_read' = loaded.did_read
    /\ cache' = loaded.cache
    /\ date_range' = NoRange
    /\ selected_continent' = NoChoice
    /\ selected_countries' = NoCountries
    /\ selected_tab' = NoChoice
    /\ metric_col' = NoChoice
    /\ df' = NotComputed
    /\ start_date' = NotComputed
    /\ end_date' = NotComputed
    /\ global_df' = NotComputed
    /\ trend_df' = NotComputed
    /\ latest_global' = NotComputed
    /\ kpi' = NotComputed
    /\ top_df' = NotComputed
    /\ continent_summary' = NotComputed
    /\ heatmap' = NotComputed
    /\ corr' = NotComputed

Completed(loaded, fresh, dr, continent, countries, tab, metric) ==
    LET t == loaded.df
        range == IF fresh THEN DefaultRange(t) ELSE dr
        cont == IF fresh THEN "All" ELSE continent
        sel == IF fresh THEN DefaultSelection(t, cont) ELSE countries
        view == IF fresh THEN "Overview" ELSE tab
        col == IF view # "Overview" THEN NoChoice
               ELSE IF fresh THEN "total_cases" ELSE metric
    IN  /\ outcome' = "ok"
        /\ did_read' = loaded.did_read
        /\ cache' = loaded.cache
        /\ date_range' = range
        /\ selected_continent' = cont
        /\ selected_countries' = sel
        /\ selected_tab' = view
        /\ metric_col' = col
        /\ start_date' = StartEnd(t, range)[1]
        /\ end_date' = StartEnd(t, range)[2]
        /\ df' = df_after_filter(t, start_date', end_date', cont)
        /\ global_df' = GlobalDf(t, start_date', end_date', cont)
        /\ trend_df' = TrendDf(global_df', sel)
        /\ latest_global' = LatestGlobal(snapshot_source(global_df', trend_df'))
        /\ kpi' = IF view = "Overview"
                  THEN Kpi(global_df', latest_global', end_date') ELSE NotComputed
        /\ top_df' = IF view = "Overview"
                     THEN TopDf(latest_global', col) ELSE NotComputed
        /\ continent_summary' = IF view = "Geographic"
                                THEN ContinentSummary(latest_global') ELSE NotComputed
        /\ heatmap' = IF view = "Analysis" THEN Heatmap(global_df') ELSE NotComputed
        /\ corr' = IF view = "Analysis"
                   THEN Correlation(latest_global') ELSE NotComputed

RunScript(c, fresh, dr, continent, countries, tab, metric) ==
    LET loaded == load_data(c, file)
    IN  IF loaded.outcome = "ok"
        THEN Completed(loaded, fresh, dr, continent, countries, tab, metric)
        ELSE Halted(loaded)

-----------------------------------------------------------------------------
(* Actions: what the user and the environment do. *)

\* the user reruns the script without touching a widget
Rerun ==
    /\ RunScript(cache, outcome # "ok", date_range, selected_continent,
                 selected_countries, selected_tab, metric_col)
    /\ UNCHANGED file

\* the user picks a date range
SetDateRange ==
    /\ outcome = "ok"
    /\ \E dr \in DateRanges(df) :
          /\ dr # date_range
          /\ RunScript(cache, FALSE, dr, selected_continent,
                       selected_countries, selected_tab, metric_col)
    /\ UNCHANGED file

\* the user picks a continent; the multiselect is a new widget, with its
\* default value, when its options change with the continent
SelectContinent ==
    /\ outcome = "ok"
    /\ \E c \in all_continents(df) :
          /\ c # selected_continent
          /\ RunScript(cache, FALSE, date_range, c,
                       IF available_countries(df, c)
                            = available_countries(df, selected_continent)
                       THEN selected_countries ELSE DefaultSelection(df, c),
                       selected_tab, metric_col)
    /\ UNCHANGED file

\* the user changes the focus countries
SelectCountries ==
    /\ outcome = "ok"
    /\ \E s \in Selections(df, selected_continent) :
          /\ s # selected_countries
          /\ RunScript(cache, FALSE, date_range, selected_continent, s,
                       selected_tab, metric_col)
    /\ UNCHANGED file

\* the user opens another tab; the metric selectbox lives in Overview
SelectTab ==
    /\ outcome = "ok"
    /\ \E tab \in Tabs :
          /\ tab # selected_tab
          /\ RunScript(cache, FALSE, date_range, selected_continent,
                       selected_countries, tab, "total_cases")
    /\ UNCHANGED file

\* the user picks the metric of the map and the Top Nations table
SelectMetric ==
    /\ outcome = "ok"
    /\ selected_tab = "Overview"
    /\ \E m \in MetricCols :
          /\ m # metric_col
          /\ RunScript(cache, FALSE, date_range, selected_continent,
                       selected_countries, selected_tab, m)
    /\ UNCHANGED file

\* the files that replace the one the process started with
ReplacementFiles ==
    {MissingCsv, UnparsableCsv}
    \cup {Csv(t) : t \in {u \in TablesUpTo(1) : u[1].total_cases = <<2>>}}

\* the file is replaced, removed or corrupted on disk; nothing runs
ReplaceFile ==
    /\ \E f \in ReplacementFiles :
          /\ f # file
          /\ file' = f
    /\ UNCHANGED <<cache, date_range, selected_continent, selected_countries,
                   selected_tab, metric_col, outcome, did_read, df, start_date,
                   end_date, global_df, trend_df, latest_global, kpi, top_df,
                   continent_summary, heatmap, corr>>

\* the server process is restarted: an empty memo, a new session, a first run
Restart ==
    /\ RunScript(EmptyCache, TRUE, NoRange, NoChoice, NoCountries, NoChoice,
                 NoChoice)
    /\ UNCHANGED file

\* the first run of a new process on file f
FirstRun(f) ==
    LET loaded == load_data(EmptyCache, f)
        t == loaded.df
        ok == loaded.outcome = "ok"
    IN  /\ file = f
        /\ outcome = loaded.outcome
        /\ did_read = loaded.did_read
        /\ cache = loaded.cache
        /\ date_range = IF ok THEN DefaultRange(t) ELSE NoRange
        /\ selected_continent = IF ok THEN "All" ELSE NoChoice
        /\ selected_countries = IF ok THEN DefaultSelection(t, "All") ELSE NoCountries
        /\ selected_tab = IF ok THEN "Overview" ELSE NoChoice
        /\ metric_col = IF ok THEN "total_cases" ELSE NoChoice
        /\ start_date = IF ok THEN StartEnd(t, date_range)[1] ELSE NotComputed
        /\ end_date = IF ok THEN StartEnd(t, date_range)[2] ELSE NotComputed
        /\ df = IF ok THEN df_after_filter(t, start_date, end_date, "All")
                ELSE NotComputed
        /\ global_df = IF ok THEN GlobalDf(t, start_date, end_date, "All")
                       ELSE NotComputed
        /\ trend_df = IF ok THEN TrendDf(global_df, selected_countries)
                      ELSE NotComputed
        /\ latest_global = IF ok THEN LatestGlobal(snapshot_source(global_df, trend_df))
                           ELSE NotComputed
        /\ kpi = IF ok THEN Kpi(global_df, latest_global, end_date) ELSE NotComputed
        /\ top_df = IF ok THEN TopDf(latest_global, "total_cases") ELSE NotComputed
        /\ continent_summary = NotComputed
        /\ heatmap = NotComputed
        /\ corr = NotComputed

\* the files a process of the full machine starts with
StartFiles == {MissingCsv, UnparsableCsv} \cup {Csv(t) : t \in TablesUpTo(1)}

Init == \E f \in StartFiles : FirstRun(f)

Next ==
    \/ Rerun
    \/ SetDateRange
    \/ SelectContinent
    \/ SelectCountries
    \/ SelectTab
    \/ SelectMetric
    \/ ReplaceFile
    \/ Restart

Spec == Init /\ [][Next]_vars

\* the dashboard on a file that stays as it is: every table of Tables
InitPipeline == \E t \in Tables : FirstRun(Csv(t))

NextPipeline ==
    \/ SetDateRange
    \/ SelectContinent
    \/ SelectCountries
    \/ SelectTab
    \/ SelectMetric

SpecPipeline == InitPipeline /\ [][NextPipeline]_vars

\* the same on the tables of many locations
InitWide == \E t \in WideTables : FirstRun(Csv(t))

SpecWide == InitWide /\ [][NextPipeline]_vars

\* the filter step as a function of its inputs: start_date and end_date
\* are any two days of the data, in either order, with any continent and
\* any selection of countries
AnyRanges(t) == PickDays(t) \X PickDays(t)

ApplyFilter ==
    /\ outcome = "ok"
    /\ \E dr \in AnyRanges(df) :
       \E c \in all_continents(df) :
       \E sel \in Selections(df, c) :
          RunScript(cache, FALSE, dr, c, sel, selected_tab, metric_col)
    /\ UNCHANGED file

NextFilter == ApplyFilter

SpecFilter == InitWide /\ [][NextFilter]_vars

-----------------------------------------------------------------------------
(* Properties. *)

\* the place of a row in a table whose rows are all different
IndexOf(t, r) == CHOOSE k \in 1..Len(t) : t[k] = r

\* sub holds exactly the rows kept of t, once each, in the order they
\* have in t
ExactlyTheRows(sub, t, kept) ==
    /\ SeqToSet(sub) = kept
    /\ \A i, j \in 1..Len(sub) : i < j => IndexOf(t, sub[i]) < IndexOf(t, sub[j])

\* the predicate of the filter, in the words of the claim
InWindow(r) ==
    /\ start_date <= r.date
    /\ r.date <= end_date
    /\ (selected_continent = "All" \/ r.continent = <<selected_continent>>)

InSelection(r) == r.location \in selected_countries

\* C1: global_df is exactly the rows of df with start_date <= date <=
\* end_date and, with a continent selected, that continent; with countries
\* selected, trend_df is exactly the rows of global_df of those countries;
\* both keep the order of df.
C1_FilterExact ==
    outcome = "ok" =>
        /\ ExactlyTheRows(global_df, df, {r \in SeqToSet(df) : InWindow(r)})
        /\ (selected_countries # {} =>
                ExactlyTheRows(trend_df, global_df,
                               {r \in SeqToSet(global_df) : InSelection(r)}))

\* C1 witness: a continent and countries are selected, the date bounds cut
\* rows of the continent away, the continent cuts rows of the window away,
\* rows lie on both bounds, and trend_df keeps some rows of global_df
C1_Witness ==
    /\ outcome = "ok"
    /\ selected_continent # "All"
    /\ selected_countries # {}
    /\ \E i \in 1..Len(df) : df[i].continent = <<selected_continent>>
                             /\ df[i].date < start_date
    /\ \E i \in 1..Len(df) : df[i].continent # <<selected_continent>>
                             /\ start_date <= df[i].date /\ df[i].date <= end_date
    /\ \E i \in 1..Len(global_df) : global_df[i].date = end_date
    /\ Len(global_df) >= 2
    /\ trend_df # <<>>
    /\ Len(trend_df) < Len(global_df)


\* the dates of the rows of a location in global_df
DatesOf(loc) == {global_df[i].date : i \in {j \in 1..Len(global_df) :
                                               global_df[j].location = loc}}

\* C2: latest_global holds no two rows of one location, holds a row for
\* every location that has a row in global_df, and the date of the row of
\* a location is the largest date of the location's rows in global_df.
C2_LatestPerLocation ==
    outcome = "ok" =>
        /\ \A i, j \in 1..Len(latest_global) :
               latest_global[i].location = latest_global[j].location => i = j
        /\ {latest_global[i].location : i \in 1..Len(latest_global)}
               = Locations(global_df)
        /\ \A i \in 1..Len(latest_global) :
               /\ latest_global[i].date \in DatesOf(latest_global[i].location)
               /\ \A d \in DatesOf(latest_global[i].location) :
                      d <= latest_global[i].date

\* C2 witness: global_df holds several locations, and a location whose
\* later row stands before its earlier row
C2_Witness ==
    /\ outcome = "ok"
    /\ Cardinality(Locations(global_df)) >= 2
    /\ \E i, j \in 1..Len(global_df) :
           /\ i < j
           /\ global_df[i].location = global_df[j].location
           /\ global_df[i].date > global_df[j].date


\* the record of a location with the largest date in global_df
LatestRecord(loc) ==
    LET rows == {r \in SeqToSet(global_df) : r.location = loc}
    IN  CHOOSE r \in rows : \A q \in rows : q.date <= r.date

\* C3: every column of the latest_global row of a location has the value,
\* a missing value included, of the location's record with the largest
\* date in global_df.
C3_SnapshotIsRecord ==
    outcome = "ok" =>
        \A i \in 1..Len(latest_global) :
            \A c \in NumericCols \cup {"continent", "date"} :
                latest_global[i][c] = LatestRecord(latest_global[i].location)[c]

\* the deltas of the KPI cards
Deltas == {kpi.cases_delta, kpi.deaths_delta, kpi.vax_delta}

\* a delta that is a number: "+", numerator, denominator
IsNumber(delta) == Len(delta) = 3

\* C4: a delta is never a quotient by zero, and a past aggregate of
\* exactly 0 (prev_cases, prev_deaths or prev_vax) gives the delta None.
C4_NoDivisionByZero ==
    (outcome = "ok" /\ selected_tab = "Overview") =>
        /\ \A delta \in Deltas : delta = None \/ (IsNumber(delta) /\ delta[3] # 0)
        /\ (kpi.prev_cases = <<0>> => kpi.cases_delta = None)
        /\ (kpi.prev_deaths = <<0>> => kpi.deaths_delta = None)
        /\ ((~IsNaN(kpi.prev_vax) /\ kpi.prev_vax[1] = 0) => kpi.vax_delta = None)

\* C4 witness: the comparison window has rows, prev_cases is exactly 0
\* while total_cases is not, and the cases delta is None
C4_Witness ==
    /\ outcome = "ok"
    /\ selected_tab = "Overview"
    /\ kpi.past_data # <<>>
    /\ kpi.prev_cases = <<0>>
    /\ kpi.total_cases # 0
    /\ kpi.cases_delta = None
    /\ \E i \in 1..Len(kpi.past_data) : kpi.past_data[i].total_cases = <<0>>


\* the comparison window: the rows of global_df dated at or before
\* end_date minus 30 days
ComparisonWindow == {r \in SeqToSet(global_df) : r.date <= end_date - DeltaDays}

\* the rows of the comparison window on its last date, in file order
LastDayRows ==
    LET last == CHOOSE d \in {r.date : r \in ComparisonWindow} :
                    \A r \in ComparisonWindow : r.date <= d
        Keep(r) == r.date = last
    IN  SelectSeq(global_df, Keep)

\* delta is the number num / den
IsQuotient(delta, num, den) ==
    /\ IsNumber(delta)
    /\ delta[3] # 0
    /\ den # 0
    /\ delta[2] * den = num * delta[3]

\* the claim for a summed column: None exactly when the window is empty or
\* the past aggregate is zero, else (current - past) / past * 100
RatioOrNone(delta, current, past) ==
    IF ComparisonWindow = {} \/ past = <<0>>
    THEN delta = None
    ELSE IsQuotient(delta, (current - past[1]) * 100, past[1])

\* the claim for the mean: None exactly when the window is empty or the
\* past mean is zero or absent, else (current - past) / past * 100
MeanRatioOrNone(delta, current, past) ==
    IF ComparisonWindow = {} \/ IsNaN(past) \/ past[1] = 0
    THEN delta = None
    ELSE /\ ~IsNaN(current)
         /\ IsQuotient(delta, (current[1] * past[2] - past[1] * current[2]) * 100,
                       current[2] * past[1])

\* C5 as stated: every delta is None exactly when the comparison window has
\* no rows or the past aggregate is zero or absent, and is otherwise, a
\* negative past aggregate included, (current - past) / past * 100.
C5_RatioUnlessZero ==
    (outcome = "ok" /\ selected_tab = "Overview") =>
        /\ RatioOrNone(kpi.cases_delta, kpi.total_cases, kpi.prev_cases)
        /\ RatioOrNone(kpi.deaths_delta, kpi.total_deaths, kpi.prev_deaths)
        /\ MeanRatioOrNone(kpi.vax_delta, kpi.avg_vax_rate, kpi.prev_vax)

\* the delta of a summed column as the code computes it
SumDeltaIs(delta, c) ==
    LET current == ColSum(latest_global, c)
        past == ColSum(LastDayRows, c)
    IN  IF ComparisonWindow = {} \/ past <= 0
        THEN delta = None
        ELSE IsQuotient(delta, (current - past) * 100, past)

\* the delta of the mean vaccination rate as the code computes it
MeanDeltaIs(delta, c) ==
    LET current == ColMean(latest_global, c)
        past == ColMean(LastDayRows, c)
    IN  IF ComparisonWindow = {} \/ IsNaN(past) \/ past[1] <= 0
        THEN delta = None
        ELSE /\ ~IsNaN(current)
             /\ IsQuotient(delta, current[1] * past[2] - past[1] * current[2],
                           current[2] * past[2])

\* C5 amended: a delta is None exactly when the comparison window has no
\* rows or the past aggregate is zero, negative or absent.  Otherwise the
\* cases and deaths deltas are (current - past) / past * 100 with current
\* the sum over latest_global and past the sum over the rows of the
\* comparison window on its last date, and the vaccination delta is the
\* difference current - past of the means over the same two sets of rows.
C5_DeltaAsComputed ==
    (outcome = "ok" /\ selected_tab = "Overview") =>
        /\ SumDeltaIs(kpi.cases_delta, "total_cases")
        /\ SumDeltaIs(kpi.deaths_delta, "total_deaths")
        /\ MeanDeltaIs(kpi.vax_delta, "vaccination_rate")

\* C5 witness: the comparison window has rows; the past cases are
\* negative and their delta is None; the past deaths are positive and
\* their delta is a number other than 0; the vaccination delta is a number
C5_Witness ==
    /\ outcome = "ok"
    /\ selected_tab = "Overview"
    /\ ComparisonWindow # {}
    /\ kpi.prev_cases[1] < 0
    /\ kpi.cases_delta = None
    /\ kpi.prev_deaths[1] > 0
    /\ IsNumber(kpi.deaths_delta)
    /\ kpi.deaths_delta[2] # 0
    /\ IsNumber(kpi.vax_delta)


\* the cell of column c in the row of top_df at place i
TopCell(i) == top_df[i][metric_col]

\* C6: top_df has min(10, number of locations of latest_global) rows, no
\* location twice, in ascending order of the chosen metric (rows without a
\* value of the metric stand after the rows with one).
C6_TopNations ==
    (outcome = "ok" /\ selected_tab = "Overview") =>
        /\ Len(top_df) = IF Cardinality(Locations(latest_global)) < TopNationsN
                         THEN Cardinality(Locations(latest_global))
                         ELSE TopNationsN
        /\ \A i, j \in 1..Len(top_df) :
               top_df[i].location = top_df[j].location => i = j
        /\ \A i, j \in 1..Len(top_df) :
               i < j =>
                   \/ IsNaN(TopCell(j))
                   \/ (~IsNaN(TopCell(i)) /\ TopCell(i)[1] <= TopCell(j)[1])

\* C6 witness: more than 10 locations, 10 rows in top_df, a metric other
\* than the default one, rows of different values and a row without one
C6_Witness ==
    /\ outcome = "ok"
    /\ selected_tab = "Overview"
    /\ metric_col # "total_cases"
    /\ Cardinality(Locations(latest_global)) > TopNationsN
    /\ Len(top_df) = TopNationsN
    /\ ~IsNaN(TopCell(1))
    /\ ~IsNaN(TopCell(2))
    /\ TopCell(1)[1] < TopCell(2)[1]
    /\ \E i \in 1..Len(latest_global) : IsNaN(latest_global[i][metric_col])


\* a cell that ranks below another: a smaller number, or no value
\* against a number
RanksBelow(x, y) ==
    IF IsNaN(y) THEN FALSE ELSE IF IsNaN(x) THEN TRUE ELSE x[1] < y[1]

\* chosen are n of the entities of the function val (all of them when
\* there are fewer), and no entity left out ranks above a chosen one
IsTopN(chosen, n, val) ==
    /\ chosen \subseteq DOMAIN val
    /\ Cardinality(chosen) = IF Cardinality(DOMAIN val) < n
                             THEN Cardinality(DOMAIN val) ELSE n
    /\ \A a \in chosen : \A b \in (DOMAIN val) \ chosen : ~RanksBelow(val[a], val[b])

\* the value of column c in the record of each location with the
\* largest date in global_df
LatestRecordValue(c) == [loc \in Locations(global_df) |-> LatestRecord(loc)[c]]

\* the value of column c in the latest_global row of each location
SnapshotValue(c) ==
    [loc \in Locations(latest_global) |->
        (CHOOSE r \in SeqToSet(latest_global) : r.location = loc)[c]]

\* the largest value of column c over the rows of each location in
\* global_df
WindowMaxValue(c) ==
    [loc \in Locations(global_df) |-> ColMax(GroupOf(global_df, loc), c)]

\* C7 as stated: the 10 Top Nations, the 5 fallback countries and the 15
\* heatmap countries are each the N locations whose latest record in
\* global_df has the largest value of the metric.
C7_RankByLatestRecord ==
    outcome = "ok" =>
        /\ selected_tab = "Overview" =>
               IsTopN(Locations(top_df), TopNationsN, LatestRecordValue(metric_col))
        /\ selected_countries = {} =>
               IsTopN(Locations(trend_df), TopCountriesN,
                      LatestRecordValue("total_cases"))
        /\ selected_tab = "Analysis" =>
               IsTopN(SeqToSet(heatmap.countries), HeatmapN,
                      LatestRecordValue("total_cases"))

\* C7 amended: the 10 Top Nations are the 10 locations with the largest
\* value of the metric in their latest_global row; the 5 fallback
\* countries and the 15 heatmap countries are the N locations with the
\* largest value of total_cases over all their rows in global_df, which
\* is not the value of their latest record when total_cases falls.
C7_RankAsComputed ==
    outcome = "ok" =>
        /\ selected_tab = "Overview" =>
               IsTopN(Locations(top_df), TopNationsN, SnapshotValue(metric_col))
        /\ selected_countries = {} =>
               IsTopN(Locations(trend_df), TopCountriesN,
                      WindowMaxValue("total_cases"))
        /\ selected_tab = "Analysis" =>
               IsTopN(SeqToSet(heatmap.countries), HeatmapN,
                      WindowMaxValue("total_cases"))

\* C7 witness: no country is selected, the Analysis tab is shown, there
\* are more locations than heatmap countries, and a fallback country and
\* a heatmap country each rank, by the latest record, below a location
\* that was left out
C7_Witness ==
    /\ outcome = "ok"
    /\ selected_countries = {}
    /\ selected_tab = "Analysis"
    /\ Cardinality(Locations(global_df)) > HeatmapN
    /\ \E a \in Locations(trend_df) : \E b \in Locations(global_df) \ Locations(trend_df) :
           RanksBelow(LatestRecordValue("total_cases")[a],
                      LatestRecordValue("total_cases")[b])
    /\ \E a \in SeqToSet(heatmap.countries) :
           \E b \in Locations(global_df) \ SeqToSet(heatmap.countries) :
               RanksBelow(LatestRecordValue("total_cases")[a],
                          LatestRecordValue("total_cases")[b])


\* the columns continent_summary reduces by sum
SumCols == {"total_cases", "total_deaths", "population"}

\* the rows of latest_global that fall in the partition of a continent
SnapshotRowsOf(continent) ==
    {r \in SeqToSet(latest_global) : r.continent = <<continent>>}

\* the rows of global_df that fall in the partition of a location and month
MonthRowsOf(l, m) ==
    {r \in SeqToSet(global_df) : r.location = l /\ MonthOf(r.date) = m}

\* no row of the partition holds a value of column c
NoValue(rows, c) == \A r \in rows : IsNaN(r[c])

\* C8 as stated: in continent_summary and in the heatmap matrix a cell
\* whose partition has no value of the reduced column is missing, never 0.
C8_MissingNeverZero ==
    outcome = "ok" =>
        /\ selected_tab = "Geographic" =>
               \A i \in 1..Len(continent_summary) :
                   \A c \in SumCols \cup {"vaccination_rate"} :
                       NoValue(SnapshotRowsOf(continent_summary[i].continent), c)
                           => IsNaN(continent_summary[i][c])
        /\ selected_tab = "Analysis" =>
               \A lm \in DOMAIN heatmap.matrix :
                   NoValue(MonthRowsOf(lm[1], lm[2]), "new_cases")
                       => IsNaN(heatmap.matrix[lm])

\* C8 amended: a cell whose partition has no value of the reduced column
\* is 0 where the reduction is a sum (total_cases, total_deaths and
\* population of continent_summary) and in the heatmap matrix, whose
\* missing cells are filled with 0; it is missing only where the
\* reduction is a mean (vaccination_rate of continent_summary).
C8_ZeroUnlessMean ==
    outcome = "ok" =>
        /\ selected_tab = "Geographic" =>
               \A i \in 1..Len(continent_summary) :
                   /\ \A c \in SumCols :
                          NoValue(SnapshotRowsOf(continent_summary[i].continent), c)
                              => continent_summary[i][c] = <<0>>
                   /\ NoValue(SnapshotRowsOf(continent_summary[i].continent),
                              "vaccination_rate")
                          => IsNaN(continent_summary[i].vaccination_rate)
        /\ selected_tab = "Analysis" =>
               \A lm \in DOMAIN heatmap.matrix :
                   NoValue(MonthRowsOf(lm[1], lm[2]), "new_cases")
                       => heatmap.matrix[lm] = <<0>>

\* C8 witness: the Geographic tab with two continents, one whose snapshot
\* rows all lack total_cases and vaccination_rate, one with a total
C8_Witness ==
    /\ outcome = "ok"
    /\ selected_tab = "Geographic"
    /\ \E i, j \in 1..Len(continent_summary) :
           /\ NoValue(SnapshotRowsOf(continent_summary[i].continent), "total_cases")
           /\ NoValue(SnapshotRowsOf(continent_summary[i].continent),
                      "vaccination_rate")
           /\ continent_summary[i].total_cases = <<0>>
           /\ ~NoValue(SnapshotRowsOf(continent_summary[j].continent), "total_cases")
           /\ continent_summary[j].total_cases # <<0>>


\* a step in which the script runs in the same process on the file as it is
ScriptRuns == file' = file /\ ~Restart

\* C9: a run whose load_data reads a file that is missing or unparsable
\* ends with DataUnavailable, nothing after the load having run, and no
\* run ends with another exception leaving load_data.
C9_DataUnavailable ==
    [][(file' = file /\ did_read') =>
           /\ outcome' # "exception"
           /\ file.kind # "csv" =>
                  /\ outcome' = "DataUnavailable"
                  /\ df' = NotComputed
                  /\ global_df' = NotComputed]_vars

\* C10: a run on a file whose table the memo holds returns that table
\* without reading the file, and a run on a file that has been replaced
\* returns the table of the file as it is now.
C10_CacheFollowsFile ==
    [][(ScriptRuns /\ file.kind = "csv") =>
           /\ outcome' = "ok"
           /\ df' = file.table
           /\ cache = <<file.table>> => ~did_read']_vars


HeatmapComputed ==
    /\ SeqToSet(heatmap.countries) \subseteq Locations(global_df)
    /\ Len(heatmap.countries) =
           IF Cardinality(Locations(global_df)) < HeatmapN
           THEN Cardinality(Locations(global_df)) ELSE HeatmapN

\* C12: on the Analysis tab the correlation matrix is computed exactly
\* when latest_global has at least 11 rows; with 10 or fewer rows, none
\* included, the warning is shown and no matrix is computed; either way
\* the run ends normally with the heatmap section computed.
C12_CorrelationNeedsRows ==
    (outcome = "ok" /\ selected_tab = "Analysis") =>
        /\ Len(latest_global) >= CorrMinRows + 1 =>
               /\ corr.shown = "corr_matrix"
               /\ DOMAIN corr.corr_matrix
                      = SeqToSet(corr_cols) \X SeqToSet(corr_cols)
        /\ Len(latest_global) <= CorrMinRows =>
               /\ corr.shown = "InsufficientData"
               /\ corr.corr_matrix = NotComputed
        /\ HeatmapComputed

\* C12 witness: the Analysis tab on a snapshot of exactly 10 rows, where
\* the warning is shown and the heatmap has its 10 countries
C12_Witness ==
    /\ outcome = "ok"
    /\ selected_tab = "Analysis"
    /\ Len(latest_global) = CorrMinRows
    /\ corr.shown = "InsufficientData"
    /\ Len(heatmap.countries) = CorrMinRows


\* the pairs of columns of the correlation matrix
CorrPairs == SeqToSet(corr_cols) \X SeqToSet(corr_cols)

\* the values column a takes in the rows of latest_global that hold a
\* value of both a and b
PairedValues(a, b) ==
    {r[a] : r \in {q \in SeqToSet(latest_global) : ~IsNaN(q[a]) /\ ~IsNaN(q[b])}}

\* the cell <<c, q>> is the number c / sqrt(q), which lies in [-1, 1]
InUnitRange(cell) == cell # NaN /\ cell[2] > 0 /\ cell[1] * cell[1] <= cell[2]

\* the cell <<c, q>> is the number 1.0
IsOne(cell) == cell # NaN /\ cell[2] > 0 /\ cell[1] > 0 /\ cell[1] * cell[1] = cell[2]

NoPopulation(continent) ==
    \/ NoValue(SnapshotRowsOf(continent), "population")
    \/ ColSum(GroupOfContinent(latest_global, continent), "population") = 0

\* C14: the per-million columns of continent_summary are computed without
\* an error, and for a continent whose population is zero or missing both
\* are missing values, not infinite and not numbers.
C14_PerMillionMissing ==
    (outcome = "ok" /\ selected_tab = "Geographic") =>
        \A i \in 1..Len(continent_summary) :
            NoPopulation(continent_summary[i].continent) =>
                /\ IsNaN(continent_summary[i].cases_per_million)
                /\ IsNaN(continent_summary[i].deaths_per_million)


\* the locations the country predicate of the last run let through
CountryPredicate ==
    IF selected_countries # {} THEN selected_countries
    ELSE SeqToSet(top_countries(global_df))

\* C15: the date-range and continent predicate applied to global_df gives
\* global_df again; that predicate and the country predicate applied to
\* trend_df give trend_df again, the fallback countries being taken anew
\* or not; and every row of global_df and of trend_df is a row of df.
C15_RefilterNoOp ==
    outcome = "ok" =>
        /\ GlobalDf(global_df, start_date, end_date, selected_continent) = global_df
        /\ IsIn(GlobalDf(trend_df, start_date, end_date, selected_continent),
                CountryPredicate) = trend_df
        /\ TrendDf(GlobalDf(trend_df, start_date, end_date, selected_continent),
                   selected_countries) = trend_df
        /\ SeqToSet(global_df) \subseteq SeqToSet(df)
        /\ SeqToSet(trend_df) \subseteq SeqToSet(global_df)

\* C15 witness: each filter drops rows, the fallback countries are in
\* use, and the rows kept hold missing cells
C15_Witness ==
    /\ outcome = "ok"
    /\ selected_continent # "All"
    /\ selected_countries = {}
    /\ global_df # <<>>
    /\ Len(global_df) < Len(df)
    /\ trend_df # <<>>
    /\ Len(trend_df) < Len(global_df)
    /\ \E i \in 1..Len(trend_df) : IsNaN(trend_df[i].total_cases)


\* C16: the filter step ends without an error for every start_date and
\* end_date, and when start_date is later than end_date global_df,
\* trend_df and latest_global are empty.
C16_EmptyWhenReversed ==
    /\ outcome = "ok"
    /\ start_date > end_date =>
           (global_df = <<>> /\ trend_df = <<>> /\ latest_global = <<>>)

\* C16 witness: start_date later than end_date, whatever the data, on a
\* table with rows on both days, of the continent chosen and of the
\* countries selected
C16_Witness ==
    /\ outcome = "ok"
    /\ start_date > end_date
    /\ selected_countries # {}
    /\ \E i, j \in 1..Len(df) :
           /\ df[i].date = start_date
           /\ df[j].date = end_date
           /\ df[i].location \in selected_countries
           /\ df[i].continent = <<selected_continent>>
    /\ global_df = <<>>
    /\ latest_global = <<>>


\* the rows of global_df, in order, whose location is one of locs
RowsOfLocations(locs) ==
    LET Keep(r) == r.location \in locs
    IN  SelectSeq(global_df, Keep)

\* C17: with no country selected trend_df is the rows of global_df of at
\* most 5 locations, which are 5 locations (all, when there are fewer)
\* with the largest total_cases in global_df; with countries selected
\* trend_df is the rows of global_df of the selected countries and of no
\* other, also when that leaves no row.
C17_FallbackOnlyWhenEmpty ==
    outcome = "ok" =>
        /\ selected_countries = {} =>
               /\ Cardinality(Locations(trend_df)) <= TopCountriesN
               /\ IsTopN(Locations(trend_df), TopCountriesN,
                         WindowMaxValue("total_cases"))
               /\ trend_df = RowsOfLocations(Locations(trend_df))
        /\ selected_countries # {} =>
               trend_df = RowsOfLocations(selected_countries)

\* C17 witness: countries are selected, none of them has a row in the
\* window, global_df has rows of more than 5 locations and trend_df is
\* empty
C17_Witness ==
    /\ outcome = "ok"
    /\ selected_countries # {}
    /\ Cardinality(Locations(global_df)) > TopCountriesN
    /\ Locations(global_df) \cap selected_countries = {}
    /\ trend_df = <<>>


\* two consecutive runs that differ in no input but the country selection
SameButCountries ==
    /\ outcome = "ok"
    /\ outcome' = "ok"
    /\ file' = file
    /\ date_range' = date_range
    /\ selected_continent' = selected_continent
    /\ selected_tab' = selected_tab
    /\ metric_col' = metric_col

\* C18: a run that differs from the run before it only in
\* selected_countries computes the same df, global_df, latest_global (the
\* correlation input), KPI values and deltas, Top Nations table, continent
\* summary and correlation; only trend_df can differ.
C18_CountriesAffectTrendOnly ==
    [][SameButCountries =>
           /\ df' = df
           /\ start_date' = start_date
           /\ end_date' = end_date
           /\ global_df' = global_df
           /\ latest_global' = latest_global
           /\ kpi' = kpi
           /\ top_df' = top_df
           /\ continent_summary' = continent_summary
           /\ corr' = corr]_vars

\* C18 witness: the user has changed the selection on the Overview tab:
\* trend_df is not what the default selection gives and it is a part of
\* global_df, from which the KPIs and the Top Nations table are computed
C18_Witness ==
    /\ outcome = "ok"
    /\ selected_tab = "Overview"
    /\ selected_countries # DefaultSelection(df, selected_continent)
    /\ trend_df # TrendDf(global_df, DefaultSelection(df, selected_continent))
    /\ Len(trend_df) < Len(global_df)
    /\ Len(top_df) > Cardinality(Locations(trend_df))
    /\ kpi.countries_tracked > Cardinality(Locations(trend_df))

=============================================================================
